---- MODULE Spec2Model ----
(***************************************************************************)
(* A model of bytelev (src/main.c): the checked size_t arithmetic, the     *)
(* read_limit parser, the two-row Levenshtein engine, the histogram lower  *)
(* bound and the windowed upper bound.                                     *)
(*                                                                         *)
(* The size type is scaled: size_t holds 0..SizeMax and unsigned           *)
(* arithmetic wraps modulo SizeMax + 1.  The window of get_ld_ub (1024 in  *)
(* the source) is WindowSize, and a byte takes NumByteValues values (256   *)
(* in the source).  The scaling keeps the relations the source relies on:  *)
(* sizeof(size_t) >= 2 and (WindowSize + 1) * sizeof(size_t) <= SIZE_MAX.  *)
(***************************************************************************)
EXTENDS Integers, Sequences, FiniteSets, TLC

\* SIZE_MAX of the scaled size type.
SizeMax == 15
\* sizeof(size_t): 2 is the least value a conforming platform can have.
SizeofSizeT == 2
\* The window of get_ld_ub (1024 in the source), scaled.
WindowSize == 2
\* The number of values of a byte (256 in the source), scaled.
NumByteValues == 3
\* Buffers of every content are drawn up to this length.
MaxLen == 3
\* Strings handed to size_t_from_string are drawn up to this length.
MaxStrLen == 3

Modulus == SizeMax + 1
SizeT == 0..SizeMax
\* Unsigned arithmetic of the size type: the value an unchecked C expression leaves.
Wrap(x) == x % Modulus

VARIABLES arith, parse, est, lev, ub

vars == <<arith, parse, est, lev, ub>>
\* What a call of one part of the program leaves alone.
notArith == <<parse, est, lev, ub>>
notParse == <<arith, est, lev, ub>>
notEst == <<arith, parse, lev, ub>>
notLev == <<arith, parse, est, ub>>
notUb == <<arith, parse, est, lev>>

Idle == [pc |-> "idle"]

-----------------------------------------------------------------------------
(* Safe arithmetic operations for size_t.  Each operator returns the status *)
(* and the content of *res after the call; res is its content before.       *)

size_t_add_wrapping(res, op1, op2) ==
  [ret |-> 0, res |-> Wrap(op1 + op2)]

size_t_add(res, op1, op2) ==
  IF SizeMax - op1 < op2
    THEN [ret |-> 1, res |-> res]
    ELSE [ret |-> 0, res |-> Wrap(op1 + op2)]

size_t_sub(res, op1, op2) ==
  IF op1 < op2
    THEN [ret |-> 1, res |-> res]
    ELSE [ret |-> 0, res |-> Wrap(op1 - op2)]

size_t_mul(res, op1, op2) ==
  IF op1 # 0 /\ (SizeMax \div op1) < op2
    THEN [ret |-> 1, res |-> res]
    ELSE [ret |-> 0, res |-> Wrap(op1 * op2)]

size_t_div(res, op1, op2) ==
  IF op2 = 0
    THEN [ret |-> 1, res |-> res]
    ELSE [ret |-> 0, res |-> op1 \div op2]

size_t_mod(res, op1, op2) ==
  IF op2 = 0
    THEN [ret |-> 1, res |-> res]
    ELSE [ret |-> 0, res |-> op1 % op2]

size_t_add_aug(res, op) == size_t_add(res, res, op)
size_t_sub_aug(res, op) == size_t_sub(res, res, op)
size_t_mul_aug(res, op) == size_t_mul(res, res, op)
size_t_div_aug(res, op) == size_t_div(res, res, op)
size_t_mod_aug(res, op) == size_t_mod(res, res, op)

size_t_inc(res) == size_t_add_aug(res, 1)
size_t_dec(res) == size_t_sub_aug(res, 1)

\* One call of a size_t_* function on a result location holding arith.res.
ArithDone(fn, form, op1, op2, r) ==
  /\ arith' = [pc |-> "done", fn |-> fn, form |-> form, op1 |-> op1, op2 |-> op2,
               old |-> arith.res, res |-> r.res, ret |-> r.ret]
  /\ UNCHANGED notArith

CallAdd == \E op1, op2 \in SizeT :
  arith.pc = "ready" /\ ArithDone("add", "plain", op1, op2, size_t_add(arith.res, op1, op2))
CallSub == \E op1, op2 \in SizeT :
  arith.pc = "ready" /\ ArithDone("sub", "plain", op1, op2, size_t_sub(arith.res, op1, op2))
CallMul == \E op1, op2 \in SizeT :
  arith.pc = "ready" /\ ArithDone("mul", "plain", op1, op2, size_t_mul(arith.res, op1, op2))
CallDiv == \E op1, op2 \in SizeT :
  arith.pc = "ready" /\ ArithDone("div", "plain", op1, op2, size_t_div(arith.res, op1, op2))
CallMod == \E op1, op2 \in SizeT :
  arith.pc = "ready" /\ ArithDone("mod", "plain", op1, op2, size_t_mod(arith.res, op1, op2))
CallAddAug == \E op \in SizeT :
  arith.pc = "ready" /\ ArithDone("add", "aug", arith.res, op, size_t_add_aug(arith.res, op))
CallSubAug == \E op \in SizeT :
  arith.pc = "ready" /\ ArithDone("sub", "aug", arith.res, op, size_t_sub_aug(arith.res, op))
CallMulAug == \E op \in SizeT :
  arith.pc = "ready" /\ ArithDone("mul", "aug", arith.res, op, size_t_mul_aug(arith.res, op))
CallDivAug == \E op \in SizeT :
  arith.pc = "ready" /\ ArithDone("div", "aug", arith.res, op, size_t_div_aug(arith.res, op))
CallModAug == \E op \in SizeT :
  arith.pc = "ready" /\ ArithDone("mod", "aug", arith.res, op, size_t_mod_aug(arith.res, op))
CallInc ==
  arith.pc = "ready" /\ ArithDone("add", "inc", arith.res, 1, size_t_inc(arith.res))
CallDec ==
  arith.pc = "ready" /\ ArithDone("sub", "dec", arith.res, 1, size_t_dec(arith.res))

InitArith ==
  /\ arith \in [pc : {"ready"}, res : SizeT]
  /\ parse = Idle /\ est = Idle /\ lev = Idle /\ ub = Idle

NextArith ==
  \/ CallAdd \/ CallSub \/ CallMul \/ CallDiv \/ CallMod
  \/ CallAddAug \/ CallSubAug \/ CallMulAug \/ CallDivAug \/ CallModAug
  \/ CallInc \/ CallDec

SpecArith == InitArith /\ [][NextArith]_vars

\* The exact mathematical result of an operation, NoResult where it has none
\* or where it does not fit the size type.
NoResult == 0 - 1
Exact(fn, a, b) ==
  CASE fn = "add" -> IF a + b > SizeMax THEN NoResult ELSE a + b
    [] fn = "sub" -> IF a < b THEN NoResult ELSE a - b
    [] fn = "mul" -> IF a * b > SizeMax THEN NoResult ELSE a * b
    [] fn = "div" -> IF b = 0 THEN NoResult ELSE a \div b
    [] fn = "mod" -> IF b = 0 THEN NoResult ELSE a % b

\* C5: a checked operation fails exactly when its mathematical result does not
\* exist or exceeds SIZE_MAX; on success the result location holds the exact
\* result, and on failure it holds what it held before (also for the in-place
\* _aug, inc and dec forms).
C5_CheckedArithmetic ==
  arith.pc = "done" =>
    LET e == Exact(arith.fn, arith.op1, arith.op2) IN
      /\ (arith.ret # 0) <=> (e = NoResult)
      /\ arith.ret = 0 => arith.res = e
      /\ arith.ret # 0 => arith.res = arith.old

\* An in-place multiplication whose product is SIZE_MAX + 1 has failed.
C5_Witness ==
  /\ arith.pc = "done" /\ arith.fn = "mul" /\ arith.form = "aug" /\ arith.ret # 0
  /\ arith.op1 * arith.op2 = SizeMax + 1

-----------------------------------------------------------------------------
(* size_t_from_string.  A string is a sequence of characters; the          *)
(* terminating '\0' is the position Len(string) + 1.                        *)

Digits == {"0", "1", "3", "7"}
Chars == Digits \cup {" ", "+", "-", "a"}
DigitValue(c) == CASE c = "0" -> 0 [] c = "1" -> 1 [] c = "3" -> 3 [] c = "7" -> 7
IsSpace(c) == c = " "

\* LONG_MAX and LONG_MIN, scaled as on an LP64 platform: LONG_MAX < SIZE_MAX.
LongMax == (SizeMax - 1) \div 2
LongMin == -LongMax - 1

Strings == UNION {[1..n -> Chars] : n \in 0..MaxStrLen}

CharAt(string, p) == IF p <= Len(string) THEN string[p] ELSE "\\0"

RECURSIVE SkipSpace(_, _)
SkipSpace(string, p) ==
  IF IsSpace(CharAt(string, p)) THEN SkipSpace(string, p + 1) ELSE p

\* The digits from position p on: the magnitude read so far is acc, clamped at
\* LongMax + 1 = -LongMin once it no longer fits (strtol keeps reading the
\* digits and returns LONG_MAX or LONG_MIN).
RECURSIVE ReadDigits(_, _, _)
ReadDigits(string, p, acc) ==
  IF CharAt(string, p) \in Digits
    THEN LET v == acc * 10 + DigitValue(string[p])
         IN  ReadDigits(string, p + 1, IF v > LongMax + 1 THEN LongMax + 1 ELSE v)
    ELSE [end |-> p, magnitude |-> acc]

\* strtol(string, &end, 10): leading white space, an optional sign, digits.
\* With no digits the value is 0 and end is the start of the string.
strtol(string) ==
  LET p0 == SkipSpace(string, 1)
      negative == CharAt(string, p0) = "-"
      p1 == IF CharAt(string, p0) \in {"+", "-"} THEN p0 + 1 ELSE p0
      d == ReadDigits(string, p1, 0)
  IN  IF d.end = p1
        THEN [value |-> 0, end |-> 1]
        ELSE [value |-> IF negative
                          THEN -d.magnitude
                          ELSE (IF d.magnitude > LongMax THEN LongMax ELSE d.magnitude),
              end |-> d.end]

size_t_from_string(res, string) ==
  IF CharAt(string, 1) \in {"\\0", "+", "-"}
    THEN [ret |-> 1, res |-> res]
  ELSE IF \A p \in 1..Len(string) : string[p] = "0"
    THEN [ret |-> 0, res |-> 0]
  ELSE LET l == strtol(string) IN
    IF l.value = 0 \/ l.value = LongMax \/ l.value = LongMin
      THEN [ret |-> 1, res |-> res]
    ELSE IF CharAt(string, l.end) # "\\0"
      THEN [ret |-> 1, res |-> res]
    ELSE IF l.value < 0 \/ l.value > SizeMax
      THEN [ret |-> 1, res |-> res]
    ELSE [ret |-> 0, res |-> l.value]

\* main: max_size starts as SIZE_MAX and argv[4] is parsed into it.
CallFromString ==
  /\ parse.pc = "ready"
  /\ LET r == size_t_from_string(parse.max_size, parse.string)
     IN  parse' = [parse EXCEPT !.pc = "done", !.max_size = r.res, !.ret = r.ret]
  /\ UNCHANGED notParse

InitParse ==
  /\ parse \in [pc : {"ready"}, string : Strings, max_size : {SizeMax}, ret : {0}]
  /\ arith = Idle /\ est = Idle /\ lev = Idle /\ ub = Idle

NextParse == CallFromString

SpecParse == InitParse /\ [][NextParse]_vars

AllDigits(string) ==
  Len(string) > 0 /\ \A p \in 1..Len(string) : string[p] \in Digits

\* C6: size_t_from_string rejects every string that is empty or holds a
\* character that is not a decimal digit (a sign, white space, a letter), and
\* accepts every string of zeros with the value 0.
C6_OnlyDigitStrings ==
  parse.pc = "done" =>
    /\ ~AllDigits(parse.string) => parse.ret # 0
    /\ (Len(parse.string) > 0 /\ \A p \in 1..Len(parse.string) : parse.string[p] = "0")
         => (parse.ret = 0 /\ parse.max_size = 0)

-----------------------------------------------------------------------------
(* struct buffer: the bytes at pointer, of which there are size.            *)

Bytes == 0..(NumByteValues - 1)
Min(x, y) == IF x < y THEN x ELSE y
Max(x, y) == IF x < y THEN y ELSE x

\* Every buffer up to MaxLen bytes, and the buffers up to SIZE_MAX bytes that
\* repeat one or two bytes.
ShortBuffers == UNION {[1..n -> Bytes] : n \in 0..Min(MaxLen, SizeMax)}
LongBuffers ==
  {[p \in 1..n |-> IF p % 2 = 1 THEN b1 ELSE b2] :
     n \in (MaxLen + 1)..SizeMax, b1 \in Bytes, b2 \in Bytes}
Buffers == ShortBuffers \cup LongBuffers

\* calloc in one call of get_levenshtein_distance: both rows are allocated, or
\* the first or the second allocation returns NULL.
AllocOutcomes == {"ok", "fail_row_1", "fail_row_2"}

-----------------------------------------------------------------------------
(* get_levenshtein_distance.  A row is a sequence: row[j + 1] is the C      *)
(* element row[j].  wrapped records that an unchecked addition exceeded     *)
(* SIZE_MAX, which the C code does not notice.                              *)

\* Lines 318-329: the cell row_2[j + 1] from row_1[j], row_1[j + 1], row_2[j].
Cell(diag, up, left, differ) ==
  LET t0 == IF differ THEN Wrap(diag + 1) ELSE diag
      t1 == IF t0 > Wrap(up + 1) THEN Wrap(up + 1) ELSE t0
      t2 == IF t1 > Wrap(left + 1) THEN Wrap(left + 1) ELSE t1
  IN  [t |-> t2,
       wrapped |-> (differ /\ diag + 1 > SizeMax) \/ up + 1 > SizeMax
                     \/ left + 1 > SizeMax]

\* Lines 317-330: the inner loop from column s.j on; s.row_2 holds row_2[0..j].
RECURSIVE InnerLoop(_, _, _, _)
InnerLoop(small, byte, row_1, s) ==
  IF s.j < Len(small)
    THEN LET c == Cell(row_1[s.j + 1], row_1[s.j + 2], s.row_2[s.j + 1],
                       small[s.j + 1] # byte)
         IN  InnerLoop(small, byte, row_1,
                       [row_2 |-> Append(s.row_2, c.t),
                        wrapped |-> s.wrapped \/ c.wrapped, j |-> s.j + 1])
    ELSE s

\* Lines 314-335: the outer loop from row s.i on; the rows are swapped after
\* each pass, so that row_1 is the row the pass has written.
RECURSIVE OuterLoop(_, _, _)
OuterLoop(small, large, s) ==
  IF s.i < Len(large)
    THEN LET r == InnerLoop(small, large[s.i + 1], s.row_1,
                            [row_2 |-> <<Wrap(s.i + 1)>>,
                             wrapped |-> s.wrapped \/ s.i + 1 > SizeMax, j |-> 0])
         IN  OuterLoop(small, large,
                       [row_1 |-> r.row_2, wrapped |-> r.wrapped, i |-> s.i + 1])
    ELSE s

\* Lines 281-288: the buffer with fewer bytes, the second one on a tie.
SmallOf(buffer_1, buffer_2) ==
  IF Len(buffer_1) < Len(buffer_2) THEN buffer_1 ELSE buffer_2
\* A slip in the first branch: buf_large is never set to buffer_2.
LargeOf_NoSwap(buffer_1, buffer_2) == buffer_1
LargeOf(buffer_1, buffer_2) ==
  IF Len(buffer_1) < Len(buffer_2) THEN buffer_2 ELSE buffer_1

\* Lines 291-298: the size in bytes of a row, or the failure of its computation.
RowBytes(buf_small) ==
  LET a == size_t_add(0, Len(buf_small), 1)
  IN  IF a.ret # 0 THEN a ELSE size_t_mul_aug(a.res, SizeofSizeT)

\* Lines 311-313: row_1[j] = j.
FirstRow(buf_small) == [j \in 1..(Len(buf_small) + 1) |-> j - 1]

\* The call: its status, *distance after it (distance before it) and whether
\* an unchecked addition wrapped.
get_levenshtein_distance(buffer_1, buffer_2, distance, alloc) ==
  LET buf_small == SmallOf(buffer_1, buffer_2)
      buf_large == LargeOf(buffer_1, buffer_2)
      n == RowBytes(buf_small)
  IN  IF n.ret # 0
        THEN [ret |-> n.ret, distance |-> distance, wrapped |-> FALSE]
      ELSE IF alloc # "ok"
        THEN [ret |-> 1, distance |-> distance, wrapped |-> FALSE]
      ELSE LET r == OuterLoop(buf_small, buf_large,
                              [row_1 |-> FirstRow(buf_small), wrapped |-> FALSE, i |-> 0])
           IN  [ret |-> 0, distance |-> r.row_1[Len(buf_small) + 1],
                wrapped |-> r.wrapped]

-----------------------------------------------------------------------------
(* get_ld_lb.  A histogram is a function from the byte values to counts.    *)

\* A slip: the difference without the comparison.
distance_Unordered(size_1, size_2) == Wrap(size_1 - size_2)
distance(size_1, size_2) ==
  IF size_1 < size_2 THEN Wrap(size_2 - size_1) ELSE Wrap(size_1 - size_2)

\* Lines 366-373: ++freq[byte] for the bytes from index s.i on; s.wrapped
\* records that a count exceeded SIZE_MAX.
RECURSIVE Histogram(_, _)
Histogram(buffer, s) ==
  IF s.i < Len(buffer)
    THEN LET byte == buffer[s.i + 1]
         IN  Histogram(buffer,
                       [freq |-> [s.freq EXCEPT ![byte] = Wrap(@ + 1)],
                        wrapped |-> s.wrapped \/ s.freq[byte] + 1 > SizeMax,
                        i |-> s.i + 1])
    ELSE s

\* A slip: the per-byte differences summed, not their maximum taken.
RECURSIVE FirstCandidate_Sum(_, _, _, _)
FirstCandidate_Sum(freq_buf_1, freq_buf_2, bound_, i) ==
  IF i < NumByteValues
    THEN FirstCandidate_Sum(freq_buf_1, freq_buf_2,
                            bound_ + distance(freq_buf_1[i], freq_buf_2[i]), i + 1)
    ELSE bound_

\* Lines 375-381: the greatest per-byte difference of the counts.
RECURSIVE FirstCandidate(_, _, _, _)
FirstCandidate(freq_buf_1, freq_buf_2, bound_, i) ==
  IF i < NumByteValues
    THEN LET t_1 == distance(freq_buf_1[i], freq_buf_2[i])
         IN  FirstCandidate(freq_buf_1, freq_buf_2,
                            IF bound_ < t_1 THEN t_1 ELSE bound_, i + 1)
    ELSE bound_

\* Lines 383-391: the checked sum of the per-byte differences.
RECURSIVE SumDifferences(_, _, _, _)
SumDifferences(freq_buf_1, freq_buf_2, t_1, i) ==
  IF i < NumByteValues
    THEN LET r == size_t_add_aug(t_1, distance(freq_buf_1[i], freq_buf_2[i]))
         IN  IF r.ret # 0 THEN r
             ELSE SumDifferences(freq_buf_1, freq_buf_2, r.res, i + 1)
    ELSE [ret |-> 0, res |-> t_1]

\* A slip: the total not halved.
Halve_Not(t_1) == t_1
\* Lines 398-400: t_1 halved, rounding up.
Halve(t_1) == IF t_1 # 0 THEN Wrap(1 + (t_1 - 1) \div 2) ELSE t_1

\* The call: its status and *bound after it, with the two candidates, the
\* total that is halved and whether a histogram count wrapped.
get_ld_lb(buffer_1, buffer_2, bound) ==
  LET zero == [freq |-> [b \in Bytes |-> 0], wrapped |-> FALSE, i |-> 0]
      h_1 == Histogram(buffer_1, zero)
      h_2 == Histogram(buffer_2, zero)
      first == FirstCandidate(h_1.freq, h_2.freq, 0, 0)
      sum == SumDifferences(h_1.freq, h_2.freq, 0, 0)
      total == IF sum.ret # 0 THEN sum
               ELSE size_t_add_aug(sum.res, distance(Len(buffer_1), Len(buffer_2)))
      wrapped == h_1.wrapped \/ h_2.wrapped
  IN  IF total.ret # 0
        THEN [ret |-> total.ret, bound |-> bound, first |-> first, total |-> 0,
              second |-> 0, wrapped |-> wrapped]
        ELSE LET second == Halve(total.res)
             IN  [ret |-> 0, bound |-> IF first < second THEN second ELSE first,
                  first |-> first, total |-> total.res, second |-> second,
                  wrapped |-> wrapped]

-----------------------------------------------------------------------------
(* get_ld_ub.  The locals of the loop; ptr_1 and ptr_2 are the offsets of   *)
(* sub_buf_1.pointer and sub_buf_2.pointer in their buffers.                *)

minimum(size_1, size_2) == IF size_1 < size_2 THEN size_1 ELSE size_2

\* Lines 424-437: the locals before the loop.
UbEntry(buffer_1, buffer_2) ==
  [buf_1_t |-> Len(buffer_1), buf_2_t |-> Len(buffer_2),
   ptr_1 |-> 0, ptr_2 |-> 0,
   size_1 |-> minimum(Len(buffer_1), WindowSize),
   size_2 |-> minimum(Len(buffer_2), WindowSize),
   bound_ |-> 0, ret |-> 0, wrapped |-> FALSE]

\* Lines 439-440: the loop condition.
UbContinues(s) == s.size_1 # 0 \/ s.size_2 # 0

\* The window of a buffer that a sub-call is given.
Window(buffer, ptr, size) == SubSeq(buffer, ptr + 1, ptr + size)

\* A slip: the pointer left where it was.
UbAdvance_Stuck(ptr, size) == ptr
\* Lines 451-452: sub_buf.pointer += sub_buf.size.
UbAdvance(ptr, size) == ptr + size

\* Lines 441-454: one pass of the loop body.
UbPass(buffer_1, buffer_2, alloc, s) ==
  LET d == get_levenshtein_distance(Window(buffer_1, s.ptr_1, s.size_1),
                                    Window(buffer_2, s.ptr_2, s.size_2), 0, alloc)
      buf_1_t == Wrap(s.buf_1_t - s.size_1)
      buf_2_t == Wrap(s.buf_2_t - s.size_2)
  IN  IF d.ret # 0
        THEN [s EXCEPT !.ret = d.ret]
        ELSE [buf_1_t |-> buf_1_t, buf_2_t |-> buf_2_t,
              ptr_1 |-> UbAdvance(s.ptr_1, s.size_1),
              ptr_2 |-> UbAdvance(s.ptr_2, s.size_2),
              size_1 |-> minimum(buf_1_t, s.size_1),
              size_2 |-> minimum(buf_2_t, s.size_2),
              bound_ |-> Wrap(s.bound_ + d.distance), ret |-> 0,
              wrapped |-> s.wrapped \/ d.wrapped \/ s.bound_ + d.distance > SizeMax]

RECURSIVE UbLoop(_, _, _, _)
UbLoop(buffer_1, buffer_2, alloc, s) ==
  IF s.ret = 0 /\ UbContinues(s)
    THEN UbLoop(buffer_1, buffer_2, alloc, UbPass(buffer_1, buffer_2, alloc, s))
    ELSE s

\* The call: its status, *bound after it and whether an unchecked addition
\* wrapped.
get_ld_ub(buffer_1, buffer_2, bound, alloc) ==
  LET s == UbLoop(buffer_1, buffer_2, alloc, UbEntry(buffer_1, buffer_2))
  IN  IF s.ret # 0
        THEN [ret |-> s.ret, bound |-> bound, wrapped |-> s.wrapped]
        ELSE [ret |-> 0, bound |-> s.bound_, wrapped |-> s.wrapped]

-----------------------------------------------------------------------------
(* The three estimators called on one pair of buffers, as main calls one of *)
(* them; the exact distance is called in both argument orders.              *)

CallDistance ==
  /\ est.pc = "distance"
  /\ est' = [est EXCEPT !.pc = "swapped",
               !.d = get_levenshtein_distance(est.buffer_1, est.buffer_2, 0, est.alloc)]
  /\ UNCHANGED notEst

CallDistanceSwapped ==
  /\ est.pc = "swapped"
  /\ est' = [est EXCEPT !.pc = "lower",
               !.ds = get_levenshtein_distance(est.buffer_2, est.buffer_1, 0, est.alloc)]
  /\ UNCHANGED notEst

CallLowerBound ==
  /\ est.pc = "lower"
  /\ est' = [est EXCEPT !.pc = "upper",
               !.lb = get_ld_lb(est.buffer_1, est.buffer_2, 0)]
  /\ UNCHANGED notEst

CallUpperBound ==
  /\ est.pc = "upper"
  /\ est' = [est EXCEPT !.pc = "done",
               !.ub = get_ld_ub(est.buffer_1, est.buffer_2, 0, est.alloc)]
  /\ UNCHANGED notEst

NotCalled == [ret |-> -1]

InitDist ==
  /\ est \in [pc : {"distance"}, buffer_1 : Buffers, buffer_2 : Buffers,
              alloc : AllocOutcomes,
              d : {NotCalled}, ds : {NotCalled}, lb : {NotCalled}, ub : {NotCalled}]
  /\ arith = Idle /\ parse = Idle /\ lev = Idle /\ ub = Idle

NextDist ==
  CallDistance \/ CallDistanceSwapped \/ CallLowerBound \/ CallUpperBound

SpecDist == InitDist /\ [][NextDist]_vars

-----------------------------------------------------------------------------
(* The reference: the full matrix of the Levenshtein recurrence over the    *)
(* integers, D[i][j] the distance of the first i bytes of a and the first j *)
(* bytes of b.  A matrix is the sequence of its rows.                       *)

Min3(x, y, z) == Min(x, Min(y, z))

RECURSIVE RefRow(_, _, _, _, _)
RefRow(prev, cur, a, b, i) ==
  LET j == Len(cur) IN
    IF j > Len(b) THEN cur
    ELSE RefRow(prev, Append(cur, Min3(prev[j] + (IF a[i] = b[j] THEN 0 ELSE 1),
                                       prev[j + 1] + 1, cur[j] + 1)), a, b, i)

RECURSIVE RefMatrix(_, _, _)
RefMatrix(rows, a, b) ==
  LET i == Len(rows) IN
    IF i > Len(a) THEN rows
    ELSE RefMatrix(Append(rows, RefRow(rows[i], <<i>>, a, b, i)), a, b)

Levenshtein(a, b) ==
  RefMatrix(<<[j \in 1..(Len(b) + 1) |-> j - 1]>>, a, b)[Len(a) + 1][Len(b) + 1]

-----------------------------------------------------------------------------
(* The claims about the three estimators, under SpecDist.                   *)

Len1 == Len(est.buffer_1)
Len2 == Len(est.buffer_2)

\* C1: when the three estimators succeed on a pair of buffers, the lower bound
\* is at most the computed distance and the computed distance at most the
\* upper bound, also when the upper bound splits the buffers into several
\* windows.
C1_BoundsOrdered ==
  (est.pc = "done" /\ est.d.ret = 0 /\ est.lb.ret = 0 /\ est.ub.ret = 0)
    => (est.lb.bound <= est.d.distance /\ est.d.distance <= est.ub.bound)

\* Both buffers take several windows, of different sizes in the last sub-call,
\* and both inequalities are strict.
C1_Witness ==
  /\ est.pc = "done" /\ est.d.ret = 0 /\ est.lb.ret = 0 /\ est.ub.ret = 0
  /\ Len1 > WindowSize /\ Len2 > WindowSize
  /\ Len1 % WindowSize # Len2 % WindowSize
  /\ est.lb.bound < est.d.distance /\ est.d.distance < est.ub.bound

\* C2: when get_levenshtein_distance succeeds, *distance is the Levenshtein
\* distance of the two byte sequences: 0 for identical buffers and 1 for
\* buffers of one length that differ in exactly one position.
C2_ExactIsLevenshtein ==
  (est.pc # "distance" /\ est.d.ret = 0) =>
    /\ est.d.distance = Levenshtein(est.buffer_1, est.buffer_2)
    /\ est.buffer_1 = est.buffer_2 => est.d.distance = 0
    /\ (Len1 = Len2
          /\ Cardinality({p \in 1..Len1 : est.buffer_1[p] # est.buffer_2[p]}) = 1)
         => est.d.distance = 1

\* C3: get_levenshtein_distance returns the same status and the same distance
\* for (a, b) and for (b, a), also when the two buffers have one length.
C3_Symmetric ==
  est.pc \in {"lower", "upper", "done"} =>
    /\ est.d.ret = est.ds.ret
    /\ est.d.distance = est.ds.distance

\* Two different buffers of one length, more than one edit apart, have been
\* compared in both orders.
C3_Witness ==
  /\ est.pc = "done" /\ est.d.ret = 0 /\ est.ds.ret = 0
  /\ Len1 = Len2 /\ est.buffer_1 # est.buffer_2 /\ est.d.distance > 1

\* C4 as stated: with one buffer empty and the rows allocated, each of the
\* three estimators succeeds and returns the length of the other buffer.
C4_EmptyAlwaysSucceeds ==
  (est.pc = "done" /\ est.alloc = "ok" /\ (Len1 = 0 \/ Len2 = 0)) =>
    /\ est.d.ret = 0 /\ est.d.distance = Max(Len1, Len2)
    /\ est.ds.ret = 0 /\ est.ds.distance = Max(Len1, Len2)
    /\ est.lb.ret = 0 /\ est.lb.bound = Max(Len1, Len2)
    /\ est.ub.ret = 0 /\ est.ub.bound = Max(Len1, Len2)

\* C4 amended: with one buffer empty and the other of n bytes, the exact
\* distance (in both orders) and the upper bound succeed and return n when the
\* rows are allocated; the lower bound succeeds and returns n when
\* 2 * n <= SIZE_MAX, and fails, leaving *bound as it was, when 2 * n > SIZE_MAX.
C4_EmptyBuffer ==
  (est.pc = "done" /\ (Len1 = 0 \/ Len2 = 0)) =>
    LET n == Max(Len1, Len2) IN
      /\ est.alloc = "ok" =>
           /\ est.d.ret = 0 /\ est.d.distance = n
           /\ est.ds.ret = 0 /\ est.ds.distance = n
           /\ est.ub.ret = 0 /\ est.ub.bound = n
      /\ 2 * n <= SizeMax => (est.lb.ret = 0 /\ est.lb.bound = n)
      /\ 2 * n > SizeMax => (est.lb.ret # 0 /\ est.lb.bound = 0)

\* The empty buffer comes first, the other is longer than SIZE_MAX / 2 and
\* takes several windows: the lower bound has failed, the others returned n.
C4_Witness ==
  /\ est.pc = "done" /\ est.alloc = "ok" /\ Len1 = 0 /\ 2 * Len2 > SizeMax
  /\ est.lb.ret # 0 /\ est.ub.ret = 0 /\ est.ub.bound = Len2
  /\ est.d.ret = 0 /\ est.d.distance = Len2

\* C8: no unchecked addition exceeds SIZE_MAX in a call that succeeds (i + 1
\* and the + 1 on the cells in get_levenshtein_distance, the histogram
\* increments in get_ld_lb, bound_ += distance in get_ld_ub), and the upper
\* bound is at most max(len1, len2).
C8_NoWrap ==
  /\ (est.pc # "distance" /\ est.d.ret = 0) => ~est.d.wrapped
  /\ (est.pc \in {"lower", "upper", "done"} /\ est.ds.ret = 0) => ~est.ds.wrapped
  /\ (est.pc \in {"upper", "done"} /\ est.lb.ret = 0) => ~est.lb.wrapped
  /\ (est.pc = "done" /\ est.ub.ret = 0) =>
       (~est.ub.wrapped /\ est.ub.bound <= Max(Len1, Len2))

\* The bytes of buffer a that buffer b does not match, value by value.
Count(buffer, b) == Cardinality({p \in 1..Len(buffer) : buffer[p] = b})
RECURSIVE SumOver(_, _, _)
SumOver(S, a, b) ==
  IF S = {} THEN 0
  ELSE LET v == CHOOSE x \in S : TRUE
       IN  Max(Count(a, v) - Count(b, v), 0) + SumOver(S \ {v}, a, b)
Surplus(a, b) == SumOver(Bytes, a, b)

\* C10: when get_ld_lb succeeds, the total that is halved is even, the halved
\* total is at least the greatest per-byte difference, and the bound returned
\* is the halved total, which is the greater of the two buffers' surpluses.
C10_SecondCandidate ==
  (est.pc \in {"upper", "done"} /\ est.lb.ret = 0) =>
    /\ est.lb.total % 2 = 0
    /\ est.lb.second >= est.lb.first
    /\ est.lb.bound = est.lb.second
    /\ est.lb.second = Max(Surplus(est.buffer_1, est.buffer_2),
                           Surplus(est.buffer_2, est.buffer_1))

\* Both buffers have a surplus, the lengths differ, and the halved total
\* exceeds the greatest per-byte difference.
C10_Witness ==
  /\ est.pc = "done" /\ est.lb.ret = 0 /\ Len1 # Len2
  /\ Surplus(est.buffer_1, est.buffer_2) > 0
  /\ Surplus(est.buffer_2, est.buffer_1) > 0
  /\ est.lb.second > est.lb.first

-----------------------------------------------------------------------------
(* get_levenshtein_distance step by step, with the heap.  A row pointer is  *)
(* NULL or the name of a block; heap maps a block to whether it is          *)
(* allocated and to its elements.  used holds the indices the last step     *)
(* read or wrote.                                                           *)

NULL == "NULL"
Free == [allocated |-> FALSE, elements |-> <<>>]
Blocks == {"block_1", "block_2"}
NoIndex == [rows |-> {}, small |-> {}, large |-> {}]

\* calloc(1, bytes): a block that is free, its elements zero.
Calloc(heap, block, bytes) ==
  [heap EXCEPT ![block] = [allocated |-> TRUE,
                           elements |-> [j \in 1..(bytes \div SizeofSizeT) |-> 0]]]

LevSmall(l) == SmallOf(l.buffer_1, l.buffer_2)
LevLarge(l) == LargeOf(l.buffer_1, l.buffer_2)

\* Lines 281-299: the roles of the buffers and the size of a row.
LevSized(l) ==
  LET n == RowBytes(LevSmall(l))
  IN  IF n.ret # 0
        THEN [l EXCEPT !.pc = "returned", !.ret = n.ret]
        ELSE [l EXCEPT !.pc = "alloc_1", !.i = n.res]

\* Lines 301-304.
AllocRow1(l) ==
  [l EXCEPT !.pc = "alloc_2", !.row_1 = "block_1",
            !.heap = Calloc(l.heap, "block_1", l.i), !.callocs = @ + 1]
AllocRow1Failed(l) ==
  [l EXCEPT !.pc = "returned", !.ret = 1]

\* Lines 305-309.
AllocRow2(l) ==
  [l EXCEPT !.pc = "init", !.row_2 = "block_2",
            !.heap = Calloc(l.heap, "block_2", l.i), !.callocs = @ + 1]
\* A slip: the return without free(row_1).
AllocRow2Failed_Leak(l) ==
  [l EXCEPT !.pc = "returned", !.ret = 1]
AllocRow2Failed(l) ==
  [l EXCEPT !.pc = "returned", !.ret = 1, !.heap[l.row_1] = Free]

\* Lines 311-313.
InitRow1(l) ==
  [l EXCEPT !.pc = "outer", !.i = 0, !.j = Len(LevSmall(l)) + 1,
            !.heap[l.row_1].elements = [j \in 1..(Len(LevSmall(l)) + 1) |-> j - 1],
            !.used = [NoIndex EXCEPT !.rows = 0..Len(LevSmall(l))]]

\* Lines 314-315: the test of the outer loop and row_2[0] = i + 1.
OuterTest(l) ==
  IF l.i < Len(LevLarge(l))
    THEN [l EXCEPT !.pc = "inner", !.j = 0,
                   !.heap[l.row_2].elements[1] = Wrap(l.i + 1),
                   !.used = [NoIndex EXCEPT !.rows = {0}]]
    ELSE [l EXCEPT !.pc = "finish", !.used = NoIndex]

\* Lines 317-330: the test of the inner loop and one cell.
InnerStep(l) ==
  IF l.j < Len(LevSmall(l))
    THEN LET row_1 == l.heap[l.row_1].elements
             row_2 == l.heap[l.row_2].elements
             c == Cell(row_1[l.j + 1], row_1[l.j + 2], row_2[l.j + 1],
                       LevSmall(l)[l.j + 1] # LevLarge(l)[l.i + 1])
         IN  [l EXCEPT !.j = l.j + 1, !.t = c.t,
                       !.heap[l.row_2].elements[l.j + 2] = c.t,
                       !.used = [rows |-> {l.j, l.j + 1}, small |-> {l.j},
                                 large |-> {l.i}]]
    ELSE [l EXCEPT !.pc = "swap", !.used = NoIndex]

\* Lines 332-334 and the ++i of line 314.
SwapRows(l) ==
  [l EXCEPT !.pc = "outer", !.row_1 = l.row_2, !.row_2 = l.row_1, !.i = l.i + 1]

\* Lines 337-340.
Finish(l) ==
  [l EXCEPT !.pc = "returned", !.ret = 0,
            !.distance = l.heap[l.row_1].elements[Len(LevSmall(l)) + 1],
            !.written = TRUE,
            !.heap = [l.heap EXCEPT ![l.row_2] = Free, ![l.row_1] = Free],
            !.used = [NoIndex EXCEPT !.rows = {Len(LevSmall(l))}]]

LevEntry == lev.pc = "entry" /\ lev' = LevSized(lev) /\ UNCHANGED notLev
LevAllocRow1 == lev.pc = "alloc_1" /\ lev' = AllocRow1(lev) /\ UNCHANGED notLev
LevAllocRow1Fails == lev.pc = "alloc_1" /\ lev' = AllocRow1Failed(lev) /\ UNCHANGED notLev
LevAllocRow2 == lev.pc = "alloc_2" /\ lev' = AllocRow2(lev) /\ UNCHANGED notLev
LevAllocRow2Fails == lev.pc = "alloc_2" /\ lev' = AllocRow2Failed(lev) /\ UNCHANGED notLev
LevInitRow1 == lev.pc = "init" /\ lev' = InitRow1(lev) /\ UNCHANGED notLev
LevOuter == lev.pc = "outer" /\ lev' = OuterTest(lev) /\ UNCHANGED notLev
LevInner == lev.pc = "inner" /\ lev' = InnerStep(lev) /\ UNCHANGED notLev
LevSwap == lev.pc = "swap" /\ lev' = SwapRows(lev) /\ UNCHANGED notLev
LevFinish == lev.pc = "finish" /\ lev' = Finish(lev) /\ UNCHANGED notLev

\* The buffers of the step-by-step call: the short ones, and two long ones on
\* which the computation of the row size overflows.
LevBuffers ==
  ShortBuffers \cup {[p \in 1..n |-> 0] : n \in {SizeMax \div SizeofSizeT, SizeMax}}

InitLev ==
  /\ lev \in [pc : {"entry"}, buffer_1 : LevBuffers, buffer_2 : LevBuffers,
              i : {0}, j : {0}, t : {0}, row_1 : {NULL}, row_2 : {NULL},
              heap : {[b \in Blocks |-> Free]}, callocs : {0},
              distance : {0}, written : {FALSE}, ret : {0}, used : {NoIndex}]
  /\ arith = Idle /\ parse = Idle /\ est = Idle /\ ub = Idle

NextLev ==
  \/ LevEntry \/ LevAllocRow1 \/ LevAllocRow1Fails \/ LevAllocRow2
  \/ LevAllocRow2Fails \/ LevInitRow1 \/ LevOuter \/ LevInner \/ LevSwap
  \/ LevFinish

SpecLev == InitLev /\ [][NextLev]_vars

Allocated(l) == {b \in Blocks : l.heap[b].allocated}
LevRowLen == Min(Len(lev.buffer_1), Len(lev.buffer_2)) + 1

\* C9: when get_levenshtein_distance returns, on any path, no row is
\* allocated; during the call at most two rows exist, each of
\* min(len1, len2) + 1 elements, none is allocated inside the loops, every row
\* index used is in 0..min(len1, len2) and every buffer index below the
\* buffer's length; *distance is written only when the call succeeds.
C9_RowsReleased ==
  lev.pc # "idle" =>
    /\ lev.pc = "returned" => Allocated(lev) = {}
    /\ lev.callocs <= 2 /\ Cardinality(Allocated(lev)) <= lev.callocs
    /\ \A b \in Allocated(lev) : Len(lev.heap[b].elements) = LevRowLen
    /\ lev.pc \in {"outer", "inner", "swap", "finish"} =>
         (lev.callocs = 2 /\ Allocated(lev) = {lev.row_1, lev.row_2}
            /\ lev.row_1 # lev.row_2)
    /\ \A k \in lev.used.rows : 0 <= k /\ k < LevRowLen
    /\ \A k \in lev.used.small : 0 <= k /\ k < Min(Len(lev.buffer_1), Len(lev.buffer_2))
    /\ \A k \in lev.used.large : 0 <= k /\ k < Max(Len(lev.buffer_1), Len(lev.buffer_2))
    /\ lev.written => (lev.pc = "returned" /\ lev.ret = 0)
    /\ (lev.pc = "returned" /\ lev.ret # 0) => (~lev.written /\ lev.distance = 0)

\* The second allocation has failed after the first succeeded, and the call
\* has returned.
C9_Witness ==
  /\ lev.pc = "returned" /\ lev.ret # 0 /\ lev.callocs = 1
  /\ lev.row_1 # NULL /\ Len(lev.buffer_1) > 0 /\ Len(lev.buffer_2) > 0

-----------------------------------------------------------------------------
(* get_ld_ub pass by pass.  windows holds, for every sub-call made, the     *)
(* windows it was given.                                                    *)

\* Lines 424-437.
UbEnter ==
  /\ ub.pc = "entry"
  /\ ub' = [ub EXCEPT !.pc = "loop", !.s = UbEntry(ub.buffer_1, ub.buffer_2)]
  /\ UNCHANGED notUb

\* Lines 439-455: the loop condition holds; the sub-call and the next windows.
UbIterate ==
  /\ ub.pc = "loop" /\ UbContinues(ub.s)
  /\ LET t == UbPass(ub.buffer_1, ub.buffer_2, ub.alloc, ub.s)
     IN  ub' = [ub EXCEPT !.s = t,
                          !.windows = Append(@, [ptr_1 |-> ub.s.ptr_1, size_1 |-> ub.s.size_1,
                                                 ptr_2 |-> ub.s.ptr_2, size_2 |-> ub.s.size_2]),
                          !.pc = IF t.ret # 0 THEN "returned" ELSE "loop",
                          !.ret = t.ret]
  /\ UNCHANGED notUb

\* Lines 457-458: the loop condition fails.
UbReturn ==
  /\ ub.pc = "loop" /\ ~UbContinues(ub.s)
  /\ ub' = [ub EXCEPT !.pc = "returned", !.bound = ub.s.bound_, !.ret = 0]
  /\ UNCHANGED notUb

\* The buffers of the pass-by-pass call: the short ones and runs of every
\* length up to SIZE_MAX.
UbBuffers == ShortBuffers \cup {[p \in 1..n |-> 0] : n \in (MaxLen + 1)..SizeMax}

InitUb ==
  /\ ub \in [pc : {"entry"}, buffer_1 : UbBuffers, buffer_2 : UbBuffers,
             alloc : AllocOutcomes, s : {UbEntry(<<>>, <<>>)}, windows : {<<>>},
             bound : {0}, ret : {0}]
  /\ arith = Idle /\ parse = Idle /\ est = Idle /\ lev = Idle

NextUb == UbEnter \/ UbIterate \/ UbReturn

SpecUb == InitUb /\ [][NextUb]_vars

RECURSIVE SumSizes(_, _, _)
SumSizes(windows, which, k) ==
  IF k = 0 THEN 0
  ELSE SumSizes(windows, which, k - 1)
         + (IF which = 1 THEN windows[k].size_1 ELSE windows[k].size_2)

\* The windows given so far lie one after the other from the start of each
\* buffer, inside it, no window is longer than WindowSize, and no window of a
\* buffer follows an empty one unless it is empty; when the loop has ended
\* they cover both buffers.
WindowsPartition ==
  ub.pc # "idle" =>
    /\ \A k \in 1..Len(ub.windows) :
         LET w == ub.windows[k] IN
           /\ w.ptr_1 = SumSizes(ub.windows, 1, k - 1)
           /\ w.ptr_2 = SumSizes(ub.windows, 2, k - 1)
           /\ w.size_1 <= WindowSize /\ w.size_2 <= WindowSize
           /\ w.ptr_1 + w.size_1 <= Len(ub.buffer_1)
           /\ w.ptr_2 + w.size_2 <= Len(ub.buffer_2)
           /\ w.size_1 > 0 \/ w.size_2 > 0
           /\ k > 1 => /\ ub.windows[k - 1].size_1 = 0 => w.size_1 = 0
                       /\ ub.windows[k - 1].size_2 = 0 => w.size_2 = 0
    /\ (ub.pc = "returned" /\ ub.ret = 0) =>
         /\ SumSizes(ub.windows, 1, Len(ub.windows)) = Len(ub.buffer_1)
         /\ SumSizes(ub.windows, 2, Len(ub.windows)) = Len(ub.buffer_2)

\* The number of windows that cover n bytes.
NumWindows(n) == (n + WindowSize - 1) \div WindowSize

\* C7: the window loop of get_ld_ub ends for every pair of buffers, after as
\* many passes as the longer buffer has windows and with nothing left of
\* either buffer, and the windows it gives to get_levenshtein_distance
\* partition each buffer: contiguous, disjoint, at most a window long, inside
\* the buffer, covering it when the loop ends; the windows of an exhausted
\* buffer are empty.
C7_WindowLoop ==
  ub.pc # "idle" =>
    /\ WindowsPartition
    /\ Len(ub.windows) <= Max(NumWindows(Len(ub.buffer_1)), NumWindows(Len(ub.buffer_2)))
    /\ (ub.pc = "loop" /\ Len(ub.windows)
           = Max(NumWindows(Len(ub.buffer_1)), NumWindows(Len(ub.buffer_2))))
         => ~UbContinues(ub.s)
    /\ (ub.pc = "returned" /\ ub.ret = 0) =>
         (ub.s.buf_1_t = 0 /\ ub.s.buf_2_t = 0 /\ ub.bound = ub.s.bound_)

\* The call has returned a bound after four or more sub-calls, the last of
\* them on a short window of one buffer and an empty window of the other.
C7_Witness ==
  /\ ub.pc = "returned" /\ ub.ret = 0 /\ Len(ub.windows) >= 4
  /\ LET w == ub.windows[Len(ub.windows)]
     IN  w.size_2 = 0 /\ w.size_1 > 0 /\ w.size_1 < WindowSize
  /\ ub.windows[2].size_2 > 0

====
